---- MODULE Spec2Model ----
(***************************************************************************)
(* Model of chunkify's chunk tracker and merger, src/src/chunk/impl.rs:    *)
(* ChunkStrategy::new, HandleStrategy::save_chunk and                      *)
(* HandleStrategy::merge_chunks, run by concurrent asynchronous tasks over *)
(* the process-wide registry UPLOADING_FILES and one upload directory.     *)
(*                                                                         *)
(* Every await and every blocking lock acquisition of the two handlers is  *)
(* a step of its own; the synchronous code between two of them is one      *)
(* step.  The registry is a DashMap: entry() takes the write lock of the   *)
(* key's shard and the RefMut it returns keeps it until the RefMut is      *)
(* dropped, which for both handlers is the end of the function body (the   *)
(* RefMut is shadowed, not dropped, by the RwLockWriteGuard).              *)
(***************************************************************************)
EXTENDS Integers, Sequences, FiniteSets, TLC

VARIABLES
    UPLOADING_FILES, \* file_id -> Vec<bool>; DOMAIN = the keys present
    shard_of,        \* file_id -> DashMap shard of the key (fixed by the hash)
    shard_lock,      \* shard -> task holding its write lock (a RefMut), or 0
    rw_lock,         \* file_id -> task holding the entry's RwLock write guard, or 0
    dir_exists,      \* upload_dir exists on disk
    chunks,          \* fragment path -> content; DOMAIN = fragment files on disk
    output,          \* file_name -> content; DOMAIN = output files on disk
    session,         \* task -> the ChunkStrategy it holds (NoSession if none)
    call,            \* task -> the call it runs or ran last
    pc,              \* task -> position in the handler
    ret,             \* task -> result of its last finished call
    loop_i,          \* task -> merge_chunks' loop variable i
    chunk_data,      \* task -> merge_chunks' chunk_data
    writer,          \* task -> bytes buffered in merge_chunks' BufWriter
    faults,          \* I/O faults the environment may still inject
    calls,           \* save_chunk / merge_chunks calls that may still be started
    hist,            \* history: the finished calls of a sequential client
    wrote,           \* history: task -> its save_chunk call has written its fragment
    saved,           \* history: the fragment paths some save_chunk has written
    running          \* the tasks a worker thread of the runtime is executing

vars == <<UPLOADING_FILES, shard_of, shard_lock, rw_lock, dir_exists, chunks,
          output, session, call, pc, ret, loop_i, chunk_data, writer, faults,
          calls, hist, wrote, saved, running>>

shared == <<UPLOADING_FILES, shard_lock, rw_lock, dir_exists, chunks, output>>
locals == <<loop_i, chunk_data, writer>>
ghost == <<wrote, saved>>

(***************************************************************************)
(* Bounds                                                                  *)
(***************************************************************************)
NumFiles == 2      \* file ids in use
NumShards == 2     \* DashMap shards the file ids may hash to
MaxTotal == 2      \* largest total_chunks (and largest chunk index) tried
NumBytes == 2      \* distinct payload bytes
MaxCalls == 2      \* save_chunk / merge_chunks calls per behaviour of Spec (one more in SpecFiles, SpecRace)
MaxSeqCalls == 3   \* calls of the sequential client
NumSavers == 3     \* concurrent savers (and their total_chunks) in SpecSavers
MaxFaults == 1     \* injected I/O faults per behaviour
MaxPrior == 2      \* longest output file found in the upload directory (SpecPrior)
NumWorkers == 1    \* worker threads of the runtime (SpecWorkers)

TaskIds == {1, 2}  \* the concurrent tasks of Spec and SpecFiles
Tasks == DOMAIN pc
FileIds == DOMAIN shard_of
Shards == 1..NumShards
Indices == 0..MaxTotal
Payloads == {<<b>> : b \in 1..NumBytes}


(***************************************************************************)
(* Values                                                                  *)
(***************************************************************************)
NoTask == 0
NoSession == [fid |-> 0, file_name |-> 0, start_chunk_index |-> 0, total_chunks |-> 0]
NoCall == [op |-> "none", idx |-> 0, data |-> <<>>]
NoResult == [kind |-> "None", index |-> 0, total |-> 0]
Ok == [kind |-> "Ok", index |-> 0, total |-> 0]
Err(k) == [kind |-> k, index |-> 0, total |-> 0]
IndexOutOfBounds(i, n) == [kind |-> "IndexOutOfBounds", index |-> i, total |-> n]

\* impl.rs:124, 127, 147: vec![false; n]
AllFalse(n) == [k \in 1..n |-> FALSE]

\* impl.rs:149: chunks_status.iter().all(|&status| status)
all(v) == \A k \in 1..Len(v) : v[k]

(***************************************************************************)
(* ChunkStrategy::new, impl.rs:22-47.  The result and, when it is Ok, the  *)
(* strategy.  file_name_func is taken to map distinct (file_id, index)     *)
(* pairs to distinct paths, none of them an output path.                   *)
(***************************************************************************)
\* faulty variant: the bound test of impl.rs:33 written with > instead of >=
new_inclusive(start_chunk_index, fid, file_name, total_chunks) ==
    IF start_chunk_index > total_chunks
    THEN [res |-> IndexOutOfBounds(start_chunk_index, total_chunks), strategy |-> NoSession]
    ELSE [res |-> Ok,
          strategy |-> [fid |-> fid, file_name |-> file_name,
                        start_chunk_index |-> start_chunk_index,
                        total_chunks |-> total_chunks]]

new(start_chunk_index, fid, file_name, total_chunks) ==
    IF start_chunk_index >= total_chunks
    THEN [res |-> IndexOutOfBounds(start_chunk_index, total_chunks), strategy |-> NoSession]
    ELSE [res |-> Ok,
          strategy |-> [fid |-> fid, file_name |-> file_name,
                        start_chunk_index |-> start_chunk_index,
                        total_chunks |-> total_chunks]]

\* faulty variant: a naming function that ignores the file id
get_chunk_path_shared(fid, chunk_index) == <<1, chunk_index>>

\* impl.rs:73-78: the fragment path of (file_id, chunk_index)
get_chunk_path(fid, chunk_index) == <<fid, chunk_index>>

\* impl.rs:122-124, 145-147: entry(file_id).or_insert_with(vec![false; total_chunks])
or_insert_with(map, fid, total_chunks) ==
    IF fid \in DOMAIN map THEN map ELSE map @@ (fid :> AllFalse(total_chunks))

\* faulty variant: line 135 flips the entry instead of setting it
mark_toggle(vec, total_chunks, chunk_index) ==
    LET fresh == IF Len(vec) # total_chunks THEN AllFalse(total_chunks) ELSE vec
    IN  IF chunk_index >= Len(fresh)
        THEN [vec |-> fresh, res |-> IndexOutOfBounds(chunk_index, total_chunks)]
        ELSE [vec |-> [fresh EXCEPT ![chunk_index + 1] = ~fresh[chunk_index + 1]], res |-> Ok]

\* faulty variant: an index past the end grows the vector instead of failing
mark_grow(vec, total_chunks, chunk_index) ==
    LET fresh == IF Len(vec) # total_chunks THEN AllFalse(total_chunks) ELSE vec
        grown == [k \in 1..(chunk_index + 1) |-> IF k <= Len(fresh) THEN fresh[k] ELSE FALSE]
    IN  IF chunk_index >= Len(fresh)
        THEN [vec |-> [grown EXCEPT ![chunk_index + 1] = TRUE], res |-> Ok]
        ELSE [vec |-> [fresh EXCEPT ![chunk_index + 1] = TRUE], res |-> Ok]

\* faulty variant: the reset of lines 126-128 is missing
mark_keep(vec, total_chunks, chunk_index) ==
    IF chunk_index >= Len(vec)
    THEN [vec |-> vec, res |-> IndexOutOfBounds(chunk_index, total_chunks)]
    ELSE [vec |-> [vec EXCEPT ![chunk_index + 1] = TRUE], res |-> Ok]

\* impl.rs:126-136: the critical section of save_chunk on the vector
mark(vec, total_chunks, chunk_index) ==
    LET fresh == IF Len(vec) # total_chunks THEN AllFalse(total_chunks) ELSE vec
    IN  IF chunk_index >= Len(fresh)
        THEN [vec |-> fresh, res |-> IndexOutOfBounds(chunk_index, total_chunks)]
        ELSE [vec |-> [fresh EXCEPT ![chunk_index + 1] = TRUE], res |-> Ok]

\* impl.rs:159-162, 173-175: the file is opened without truncate, so the bytes
\* the BufWriter flushes replace the head of what the file held.
write_at_start(old, bytes) == bytes \o SubSeq(old, Len(bytes) + 1, Len(old))

\* a fallible I/O operation: it succeeds, or fails while a fault is left
Outcomes == IF faults > 0 THEN {TRUE, FALSE} ELSE {TRUE}
Spend(ok) == faults' = IF ok THEN faults ELSE faults - 1

Remove(f, x) == [y \in DOMAIN f \ {x} |-> f[y]]
Put(f, x, v) == [y \in DOMAIN f \cup {x} |-> IF y = x THEN v ELSE f[y]]

\* the guards a task holds are dropped
Unlock(locks, t) == [k \in DOMAIN locks |-> IF locks[k] = t THEN NoTask ELSE locks[k]]

Return(t, r) ==
    /\ pc' = [pc EXCEPT ![t] = "idle"]
    /\ ret' = [ret EXCEPT ![t] = r]

Goto(t, l) ==
    /\ pc' = [pc EXCEPT ![t] = l]
    /\ UNCHANGED ret

(***************************************************************************)
(* save_chunk, impl.rs:115-137                                             *)
(***************************************************************************)
\* impl.rs:116-120
SaveDir(t) ==
    /\ pc[t] = "s_dir"
    /\ \E ok \in (IF dir_exists THEN {TRUE} ELSE Outcomes) :
          /\ Spend(ok)
          /\ dir_exists' = (dir_exists \/ ok)
          /\ IF ok THEN Goto(t, "s_create") ELSE Return(t, Err("CreateDirectory"))
    /\ UNCHANGED <<UPLOADING_FILES, shard_of, shard_lock, rw_lock, chunks, output,
                   session, call, locals, calls, hist, running, ghost>>

\* impl.rs:90-92, 121: async_write_to_file creates or truncates the fragment
SaveCreate(t) ==
    /\ pc[t] = "s_create"
    /\ \E ok \in Outcomes :
          /\ Spend(ok)
          /\ IF ok
             THEN /\ chunks' = Put(chunks, get_chunk_path(session[t].fid, call[t].idx), <<>>)
                  /\ Goto(t, "s_write")
             ELSE /\ UNCHANGED chunks
                  /\ Return(t, Err("WriteChunk"))
    /\ UNCHANGED <<UPLOADING_FILES, shard_of, shard_lock, rw_lock, dir_exists, output,
                   session, call, locals, calls, hist, running, ghost>>

\* impl.rs:90-100, 121: ... and writes chunk_data to it (to an unlinked file if
\* a merge removed the fragment meanwhile); `failed` is what a failed write
\* leads to
SaveWriteOr(t, failed) ==
    /\ pc[t] = "s_write"
    /\ LET path == get_chunk_path(session[t].fid, call[t].idx)
       IN  \E ok \in Outcomes :
              /\ Spend(ok)
              /\ IF ok
                 THEN /\ chunks' = IF path \in DOMAIN chunks
                                   THEN Put(chunks, path, call[t].data) ELSE chunks
                      /\ wrote' = [wrote EXCEPT ![t] = TRUE]
                      /\ saved' = saved \cup {path}
                      /\ Goto(t, "s_entry")
                 ELSE /\ UNCHANGED <<chunks, ghost>>
                      /\ failed
    /\ UNCHANGED <<UPLOADING_FILES, shard_of, shard_lock, rw_lock, dir_exists, output,
                   session, call, locals, calls, hist, running>>

\* faulty variant: the `?` of line 121 is missing, a failed write is ignored
SaveWrite_IgnoreError(t) == SaveWriteOr(t, Goto(t, "s_entry"))

SaveWrite(t) == SaveWriteOr(t, Return(t, Err("WriteChunk")))

\* impl.rs:122-124: blocks until the shard's write lock is free; `map` is the
\* registry the call leaves
SaveEntryWith(t, map) ==
    /\ pc[t] = "s_entry"
    /\ shard_lock[shard_of[session[t].fid]] = NoTask
    /\ shard_lock' = [shard_lock EXCEPT ![shard_of[session[t].fid]] = t]
    /\ UPLOADING_FILES' = map
    /\ Goto(t, "s_lock")
    /\ UNCHANGED <<shard_of, rw_lock, dir_exists, chunks, output, session, call,
                   locals, faults, calls, hist, running, ghost>>

\* faulty variant: insert() in place of entry().or_insert_with()
SaveEntry_Insert(t) ==
    SaveEntryWith(t, Put(UPLOADING_FILES, session[t].fid, AllFalse(session[t].total_chunks)))

SaveEntry(t) ==
    SaveEntryWith(t, or_insert_with(UPLOADING_FILES, session[t].fid, session[t].total_chunks))

\* faulty variant: line 125 goes on without the vector's write guard
SaveLock_NoGuard(t) ==
    /\ pc[t] = "s_lock"
    /\ Goto(t, "s_mark")
    /\ UNCHANGED <<UPLOADING_FILES, shard_of, shard_lock, rw_lock, dir_exists, chunks,
                   output, session, call, locals, faults, calls, hist, running, ghost>>

\* impl.rs:125: chunks_status.write().await
SaveLock(t) ==
    /\ pc[t] = "s_lock"
    /\ rw_lock[session[t].fid] = NoTask
    /\ rw_lock' = [rw_lock EXCEPT ![session[t].fid] = t]
    /\ Goto(t, "s_mark")
    /\ UNCHANGED <<UPLOADING_FILES, shard_of, shard_lock, dir_exists, chunks, output,
                   session, call, locals, faults, calls, hist, running, ghost>>

\* impl.rs:126-137: reset, bounds check, mark; both guards drop at the return
SaveMark(t) ==
    /\ pc[t] = "s_mark"
    /\ LET fid == session[t].fid
           m == mark(UPLOADING_FILES[fid], session[t].total_chunks, call[t].idx)
       IN  /\ UPLOADING_FILES' = [UPLOADING_FILES EXCEPT ![fid] = m.vec]
           /\ Return(t, m.res)
    /\ rw_lock' = Unlock(rw_lock, t)
    /\ shard_lock' = Unlock(shard_lock, t)
    /\ UNCHANGED <<shard_of, dir_exists, chunks, output, session, call, locals,
                   faults, calls, hist, running, ghost>>

(***************************************************************************)
(* merge_chunks, impl.rs:144-179                                           *)
(***************************************************************************)
\* impl.rs:145-147: blocks until the shard's write lock is free
MergeEntry(t) ==
    /\ pc[t] = "m_entry"
    /\ shard_lock[shard_of[session[t].fid]] = NoTask
    /\ shard_lock' = [shard_lock EXCEPT ![shard_of[session[t].fid]] = t]
    /\ UPLOADING_FILES' = or_insert_with(UPLOADING_FILES, session[t].fid,
                                         session[t].total_chunks)
    /\ Goto(t, "m_lock")
    /\ UNCHANGED <<shard_of, rw_lock, dir_exists, chunks, output, session, call,
                   locals, faults, calls, hist, running, ghost>>

\* impl.rs:148: chunks_status.write().await
MergeLock(t) ==
    /\ pc[t] = "m_lock"
    /\ rw_lock[session[t].fid] = NoTask
    /\ rw_lock' = [rw_lock EXCEPT ![session[t].fid] = t]
    /\ Goto(t, "m_check")
    /\ UNCHANGED <<UPLOADING_FILES, shard_of, shard_lock, dir_exists, chunks, output,
                   session, call, locals, faults, calls, hist, running, ghost>>

\* impl.rs:149-154: the completeness check.  On failure both guards drop at the
\* return; on success the vector is cleared and drop(chunks_status) drops the
\* RwLockWriteGuard, the RefMut of line 145 staying alive.
MergeCheck(t) ==
    /\ pc[t] = "m_check"
    /\ LET fid == session[t].fid
       IN  IF ~all(UPLOADING_FILES[fid])
           THEN /\ Return(t, Err("Merge"))
                /\ shard_lock' = Unlock(shard_lock, t)
                /\ UNCHANGED UPLOADING_FILES
           ELSE /\ UPLOADING_FILES' = [UPLOADING_FILES EXCEPT ![fid] = <<>>]
                /\ Goto(t, "m_open")
                /\ UNCHANGED shard_lock
    /\ rw_lock' = Unlock(rw_lock, t)
    /\ UNCHANGED <<shard_of, dir_exists, chunks, output, session, call, locals,
                   faults, calls, hist, running, ghost>>

\* The end of merge_chunks' body after line 164: the BufWriter drops, flushing
\* what it buffered (a failure of that flush is ignored), then the RefMut drops.
Leave(t, r, spent) ==
    /\ \E ok \in (IF writer[t] # <<>> /\ faults - spent > 0 THEN {TRUE, FALSE} ELSE {TRUE}) :
          /\ faults' = faults - spent - (IF ok THEN 0 ELSE 1)
          /\ output' = IF ok /\ session[t].file_name \in DOMAIN output
                       THEN Put(output, session[t].file_name,
                                write_at_start(output[session[t].file_name], writer[t]))
                       ELSE output
    /\ writer' = [writer EXCEPT ![t] = <<>>]
    /\ shard_lock' = Unlock(shard_lock, t)
    /\ Return(t, r)

\* impl.rs:155-165: opens the output file (create, write, no truncate); `first`
\* is the index the loop starts at
MergeOpenFrom(t, first) ==
    /\ pc[t] = "m_open"
    /\ \E ok \in (IF dir_exists THEN Outcomes ELSE {FALSE}) :
          IF ok
          THEN /\ output' = IF session[t].file_name \in DOMAIN output THEN output
                            ELSE Put(output, session[t].file_name, <<>>)
               /\ loop_i' = [loop_i EXCEPT ![t] = first]
               /\ writer' = [writer EXCEPT ![t] = <<>>]
               /\ Goto(t, "m_read")
               /\ UNCHANGED <<shard_lock, faults>>
          ELSE /\ faults' = IF dir_exists THEN faults - 1 ELSE faults
               /\ shard_lock' = Unlock(shard_lock, t)
               /\ Return(t, Err("CreateOutputFile"))
               /\ UNCHANGED <<output, loop_i, writer>>
    /\ UNCHANGED <<UPLOADING_FILES, shard_of, rw_lock, dir_exists, chunks, session,
                   call, chunk_data, calls, hist, running, ghost>>

\* faulty variant: the loop of line 165 runs over 0..total_chunks
MergeOpen_FromZero(t) == MergeOpenFrom(t, 0)

MergeOpen(t) == MergeOpenFrom(t, session[t].start_chunk_index)

\* impl.rs:166-172: async_read_from_file(&chunk_path).await
MergeRead(t) ==
    /\ pc[t] = "m_read"
    /\ LET path == get_chunk_path(session[t].fid, loop_i[t])
       IN  \E ok \in (IF path \in DOMAIN chunks THEN Outcomes ELSE {FALSE}) :
              IF ok
              THEN /\ chunk_data' = [chunk_data EXCEPT ![t] = chunks[path]]
                   /\ Goto(t, "m_append")
                   /\ UNCHANGED <<output, writer, shard_lock, faults>>
              ELSE /\ Leave(t, Err("ReadChunk"), IF path \in DOMAIN chunks THEN 1 ELSE 0)
                   /\ UNCHANGED chunk_data
    /\ UNCHANGED <<UPLOADING_FILES, shard_of, rw_lock, dir_exists, chunks, session,
                   call, loop_i, calls, hist, running, ghost>>

\* impl.rs:173-175: writer.write_all(&chunk_data)
MergeAppend(t) ==
    /\ pc[t] = "m_append"
    /\ \E ok \in Outcomes :
          IF ok
          THEN /\ writer' = [writer EXCEPT ![t] = writer[t] \o chunk_data[t]]
               /\ Goto(t, "m_remove")
               /\ UNCHANGED <<output, shard_lock, faults>>
          ELSE Leave(t, Err("WriteOutput"), 1)
    /\ chunk_data' = [chunk_data EXCEPT ![t] = <<>>]
    /\ UNCHANGED <<UPLOADING_FILES, shard_of, rw_lock, dir_exists, chunks, session,
                   call, loop_i, calls, hist, running, ghost>>

\* impl.rs:176-178: let _ = fs::remove_file(&chunk_path); the next iteration, or
\* Ok(()) after the last one; `path` is the file removed
MergeRemovePath(t, path) ==
    /\ pc[t] = "m_remove"
    /\ \E ok \in Outcomes :
          /\ chunks' = IF ok THEN Remove(chunks, path) ELSE chunks
          /\ IF loop_i[t] + 1 < session[t].total_chunks
             THEN /\ loop_i' = [loop_i EXCEPT ![t] = loop_i[t] + 1]
                  /\ Goto(t, "m_read")
                  /\ Spend(ok)
                  /\ UNCHANGED <<output, writer, shard_lock>>
             ELSE /\ loop_i' = [loop_i EXCEPT ![t] = 0]
                  /\ Leave(t, Ok, IF ok THEN 0 ELSE 1)
    /\ UNCHANGED <<UPLOADING_FILES, shard_of, rw_lock, dir_exists, session, call,
                   chunk_data, calls, hist, running, ghost>>

\* faulty variant: line 176 ends the call when the deletion fails
MergeRemove_Strict(t) ==
    /\ pc[t] = "m_remove"
    /\ \E ok \in Outcomes :
          IF ok
          THEN /\ chunks' = Remove(chunks, get_chunk_path(session[t].fid, loop_i[t]))
               /\ IF loop_i[t] + 1 < session[t].total_chunks
                  THEN /\ loop_i' = [loop_i EXCEPT ![t] = loop_i[t] + 1]
                       /\ Goto(t, "m_read")
                       /\ UNCHANGED <<output, writer, shard_lock, faults>>
                  ELSE /\ loop_i' = [loop_i EXCEPT ![t] = 0]
                       /\ Leave(t, Ok, 0)
          ELSE /\ Leave(t, Err("WriteOutput"), 1)
               /\ UNCHANGED <<chunks, loop_i>>
    /\ UNCHANGED <<UPLOADING_FILES, shard_of, rw_lock, dir_exists, session, call,
                   chunk_data, calls, hist, running, ghost>>

\* faulty variant: the path removed is that of the first chunk of the range
MergeRemove_First(t) ==
    MergeRemovePath(t, get_chunk_path(session[t].fid, session[t].start_chunk_index))

MergeRemove(t) == MergeRemovePath(t, get_chunk_path(session[t].fid, loop_i[t]))

(***************************************************************************)
(* The callers                                                             *)
(***************************************************************************)
Idle(t) == pc[t] = "idle"

\* a task is the client of one upload session: it constructs its strategy once
\* (again after a failed construction) and then calls save_chunk and merge_chunks
StartNew(t, start_chunk_index, fid, total_chunks) ==
    /\ Idle(t)
    /\ session[t] = NoSession
    /\ LET n == new(start_chunk_index, fid, fid, total_chunks)
       IN  /\ ret' = [ret EXCEPT ![t] = n.res]
           /\ session' = [session EXCEPT ![t] =
                             IF n.res = Ok THEN n.strategy ELSE session[t]]
    /\ call' = [call EXCEPT ![t] = [op |-> "new", idx |-> 0, data |-> <<>>]]
    /\ UNCHANGED <<shared, shard_of, pc, locals, faults, ghost, running>>

StartSave(t, chunk_data_, chunk_index) ==
    /\ Idle(t)
    /\ session[t] # NoSession
    /\ call' = [call EXCEPT ![t] = [op |-> "save", idx |-> chunk_index, data |-> chunk_data_]]
    /\ pc' = [pc EXCEPT ![t] = "s_dir"]
    /\ ret' = [ret EXCEPT ![t] = NoResult]
    /\ wrote' = [wrote EXCEPT ![t] = FALSE]
    /\ UNCHANGED <<shared, shard_of, session, locals, faults, saved, running>>

StartMerge(t) ==
    /\ Idle(t)
    /\ session[t] # NoSession
    /\ call' = [call EXCEPT ![t] = [op |-> "merge", idx |-> 0, data |-> <<>>]]
    /\ pc' = [pc EXCEPT ![t] = "m_entry"]
    /\ ret' = [ret EXCEPT ![t] = NoResult]
    /\ UNCHANGED <<shared, shard_of, session, locals, faults, ghost, running>>

SaveStep(t) ==
    \/ SaveDir(t) \/ SaveCreate(t) \/ SaveWrite(t)
    \/ SaveEntry(t) \/ SaveLock(t) \/ SaveMark(t)

MergeStep(t) ==
    \/ MergeEntry(t) \/ MergeLock(t) \/ MergeCheck(t) \/ MergeOpen(t)
    \/ MergeRead(t) \/ MergeAppend(t) \/ MergeRemove(t)

Step(t) == SaveStep(t) \/ MergeStep(t)

(***************************************************************************)
(* The initial state: nothing uploaded, nothing on disk                    *)
(***************************************************************************)
InitWith(tasks, fids, nfaults, ncalls) ==
    /\ UPLOADING_FILES = <<>>
    /\ shard_of \in {h \in [fids -> Shards] : h[1] = 1}
    /\ shard_lock = [s \in Shards |-> NoTask]
    /\ rw_lock = [f \in fids |-> NoTask]
    /\ dir_exists = FALSE
    /\ chunks = <<>>
    /\ output = <<>>
    /\ session = [t \in tasks |-> NoSession]
    /\ call = [t \in tasks |-> NoCall]
    /\ pc = [t \in tasks |-> "idle"]
    /\ ret = [t \in tasks |-> NoResult]
    /\ loop_i = [t \in tasks |-> 0]
    /\ chunk_data = [t \in tasks |-> <<>>]
    /\ writer = [t \in tasks |-> <<>>]
    /\ faults = nfaults
    /\ calls = ncalls
    /\ hist = <<>>
    /\ wrote = [t \in tasks |-> FALSE]
    /\ saved = {}
    /\ running = {}

CallNew(t, starts, totals) ==
    /\ \E s \in starts, f \in FileIds, n \in totals : StartNew(t, s, f, n)
    /\ UNCHANGED <<calls, hist>>

CallSave(t, payloads, indices) ==
    /\ calls > 0
    /\ \E d \in payloads, i \in indices : StartSave(t, d, i)
    /\ calls' = calls - 1
    /\ UNCHANGED hist

CallMerge(t) ==
    /\ calls > 0
    /\ StartMerge(t)
    /\ calls' = calls - 1
    /\ UNCHANGED hist

(***************************************************************************)
(* Spec: concurrent tasks on one file id, sessions of any total_chunks     *)
(* and start_chunk_index, any calls of one payload, with I/O faults        *)
(***************************************************************************)
Init == InitWith(TaskIds, {1}, MaxFaults, MaxCalls)

Next ==
    \E t \in TaskIds :
        \/ CallNew(t, 0..MaxTotal, 0..MaxTotal)
        \/ CallSave(t, {<<1>>}, Indices)
        \/ CallMerge(t)
        \/ Step(t)

Spec == Init /\ [][Next]_vars

(***************************************************************************)
(* SpecFiles: concurrent tasks on several file ids, whose keys may share a *)
(* DashMap shard; one-chunk uploads, no I/O faults                         *)
(***************************************************************************)
InitFiles == InitWith(TaskIds, 1..NumFiles, 0, MaxCalls + 1)

NextFiles ==
    \E t \in TaskIds :
        \/ CallNew(t, {0}, {1})
        \/ CallSave(t, {<<1>>}, {0})
        \/ CallMerge(t)
        \/ Step(t)

SpecFiles == InitFiles /\ [][NextFiles]_vars

(***************************************************************************)
(* SpecSeq: one client, one session, its calls one after the other, no I/O *)
(* faults; hist records every finished call with the vector it left        *)
(***************************************************************************)
Vector(fid) == IF fid \in DOMAIN UPLOADING_FILES THEN UPLOADING_FILES[fid] ELSE <<>>

\* what the fragment file of (fid, i) holds; <<>> when there is none
Fragment(fid, i) ==
    IF get_chunk_path(fid, i) \in DOMAIN chunks THEN chunks[get_chunk_path(fid, i)] ELSE <<>>

Finished(t) ==
    [op |-> call[t].op, idx |-> call[t].idx, data |-> call[t].data,
     ret |-> ret[t], vec |-> Vector(session[t].fid),
     present |-> session[t].fid \in DOMAIN UPLOADING_FILES,
     file |-> Fragment(session[t].fid, call[t].idx)]

Record(t) == hist' = IF call[t].op \in {"save", "merge"} THEN Append(hist, Finished(t)) ELSE hist

InitSeq == InitWith({1}, {1}, 0, MaxSeqCalls)

SeqNew == CallNew(1, 0..MaxTotal, 0..MaxTotal)

SeqSave ==
    /\ calls > 0
    /\ \E d \in Payloads, i \in Indices : StartSave(1, d, i)
    /\ calls' = calls - 1
    /\ Record(1)

SeqMerge ==
    /\ calls > 0
    /\ StartMerge(1)
    /\ calls' = calls - 1
    /\ Record(1)

NextSeq == SeqNew \/ SeqSave \/ SeqMerge \/ Step(1)

SpecSeq == InitSeq /\ [][NextSeq]_vars

\* the finished calls of the client, oldest first
History == IF Idle(1) /\ call[1].op \in {"save", "merge"} THEN Append(hist, Finished(1)) ELSE hist

(***************************************************************************)
(* SpecSavers: NumSavers concurrent tasks on one file id, every session    *)
(* with total_chunks = NumSavers, one save_chunk call each, no I/O faults  *)
(***************************************************************************)
InitSavers == InitWith(1..NumSavers, {1}, 0, NumSavers)

SaversSave(t) ==
    /\ call[t].op # "save"
    /\ CallSave(t, {<<1>>}, 0..(NumSavers - 1))

NextSavers ==
    \E t \in 1..NumSavers :
        \/ CallNew(t, {0}, {NumSavers})
        \/ SaversSave(t)
        \/ SaveStep(t)

SpecSavers == InitSavers /\ [][NextSavers]_vars

(***************************************************************************)
(* SpecFaulty: a sequential client with up to MaxFaults + 1 I/O faults,    *)
(* in-range saves only                                                     *)
(***************************************************************************)
FaultBudget == MaxFaults + 1

InitFaulty == InitWith({1}, {1}, FaultBudget, MaxSeqCalls)

FaultyNew == CallNew(1, {0, 1}, 1..MaxTotal)

\* chunk i carries the payload <<i + 1>>
FaultySave ==
    /\ calls > 0
    /\ \E i \in 0..(MaxTotal - 1) : StartSave(1, <<i + 1>>, i)
    /\ calls' = calls - 1
    /\ Record(1)

NextFaulty == FaultyNew \/ FaultySave \/ SeqMerge \/ Step(1)

SpecFaulty == InitFaulty /\ [][NextFaulty]_vars

(***************************************************************************)
(* SpecRace: concurrent tasks on one file id, sessions of any total_chunks *)
(* with start_chunk_index = 0, one call more than in Spec, no I/O faults   *)
(***************************************************************************)
InitRace == InitWith(TaskIds, {1}, 0, MaxCalls + 1)

NextRace ==
    \E t \in TaskIds :
        \/ CallNew(t, {0}, 1..MaxTotal)
        \/ CallSave(t, {<<1>>}, 0..(MaxTotal - 1))
        \/ CallMerge(t)
        \/ Step(t)

SpecRace == InitRace /\ [][NextRace]_vars

(***************************************************************************)
(* SpecPrior: the sequential client of SpecSeq on an upload directory that *)
(* already holds an output file of its file_name, as an earlier merge of   *)
(* that file_name leaves it                                                *)
(***************************************************************************)
PriorContents == UNION {[1..n -> 1..NumBytes] : n \in 0..MaxPrior}

InitPrior ==
    /\ UPLOADING_FILES = <<>>
    /\ shard_of = (1 :> 1)
    /\ shard_lock = [s \in Shards |-> NoTask]
    /\ rw_lock = (1 :> NoTask)
    /\ dir_exists = TRUE
    /\ chunks = <<>>
    /\ output \in {(1 :> old) : old \in PriorContents}
    /\ session = (1 :> NoSession)
    /\ call = (1 :> NoCall)
    /\ pc = (1 :> "idle")
    /\ ret = (1 :> NoResult)
    /\ loop_i = (1 :> 0)
    /\ chunk_data = (1 :> <<>>)
    /\ writer = (1 :> <<>>)
    /\ faults = 0
    /\ calls = MaxSeqCalls
    /\ hist = <<>>
    /\ wrote = (1 :> FALSE)
    /\ saved = {}
    /\ running = {}

SpecPrior == InitPrior /\ [][NextSeq]_vars

(***************************************************************************)
(* SpecWorkers: the handlers as tasks of a runtime with NumWorkers worker  *)
(* threads.  A started call is a ready task; a worker thread takes a ready *)
(* task and executes its steps; at the await of a file write or read the   *)
(* task may be suspended, which frees the thread, and it is ready again    *)
(* when the operation has completed; a task that has returned frees its    *)
(* thread.  entry() of the DashMap is a blocking call: a task waiting in   *)
(* it for the shard's lock keeps its thread.  One more task than threads,  *)
(* one-chunk uploads of one file id, no I/O faults.                        *)
(***************************************************************************)
WorkerTasks == 1..(NumWorkers + 1)

\* impl.rs:91-92, 167: the awaits of async_write_to_file and
\* async_read_from_file (write().await of lines 125 and 148 is never contended
\* and completes at once)
AwaitPcs == {"s_create", "s_write", "m_read"}

InitWorkers == InitWith(WorkerTasks, {1}, 0, NumWorkers + 2)

\* a worker thread that is free takes the ready task t
Dispatch(t) ==
    /\ ~Idle(t)
    /\ t \notin running
    /\ Cardinality(running) < NumWorkers
    /\ running' = running \cup {t}
    /\ UNCHANGED <<shared, shard_of, session, call, pc, ret, locals, faults, calls,
                   hist, ghost>>

\* task t is suspended at an await, or has returned: its thread is free
Release(t) ==
    /\ t \in running
    /\ pc[t] \in AwaitPcs \cup {"idle"}
    /\ running' = running \ {t}
    /\ UNCHANGED <<shared, shard_of, session, call, pc, ret, locals, faults, calls,
                   hist, ghost>>

\* the thread executing task t takes the task's next step
Run(t) == t \in running /\ Step(t)

\* a client starts an operation as a new task
Spawn(t) ==
    /\ t \notin running
    /\ \/ CallNew(t, {0}, {1})
       \/ CallSave(t, {<<1>>}, {0})
       \/ CallMerge(t)

NextWorkers ==
    \E t \in WorkerTasks : Spawn(t) \/ Dispatch(t) \/ Release(t) \/ Run(t)

SpecWorkers == InitWorkers /\ [][NextWorkers]_vars

(***************************************************************************)
(* Properties of the sequential client (SpecSeq)                           *)
(***************************************************************************)
RECURSIVE Concat(_, _, _)
\* f[lo] \o f[lo + 1] \o ... \o f[hi]
Concat(f, lo, hi) == IF lo > hi THEN <<>> ELSE f[lo] \o Concat(f, lo + 1, hi)

AllTrue(n) == [k \in 1..n |-> TRUE]

\* the finished save_chunk calls for index i, by position in the history
SavesOf(i) == {k \in 1..Len(History) : History[k].op = "save" /\ History[k].idx = i}

\* the payload of the last finished save_chunk for index i
LastPayload(i) ==
    History[CHOOSE k \in SavesOf(i) : \A j \in SavesOf(i) : j <= k].data

\* the vector the k-th finished call found: none before the first call
Before(k) ==
    IF k = 1 THEN [present |-> FALSE, vec |-> <<>>]
    ELSE [present |-> History[k - 1].present, vec |-> History[k - 1].vec]

\* the client saved every index 0..total_chunks-1 exactly once, in some order,
\* then called merge_chunks, which has returned
UploadedOnce ==
    LET n == session[1].total_chunks
    IN  /\ session[1] # NoSession
        /\ Idle(1)
        /\ Len(History) = n + 1
        /\ History[n + 1].op = "merge"
        /\ \A i \in 0..(n - 1) : \E k \in 1..n : History[k].op = "save" /\ History[k].idx = i

\* C1: after save_chunk was called once per index 0..total_chunks-1, in any
\* order, on a fresh upload directory without I/O faults, merge_chunks returns
\* Ok and the output file holds exactly the payloads of the indices
\* start_chunk_index..total_chunks-1 in ascending order, and nothing of the
\* indices below start_chunk_index.
C1_MergeConcatenates ==
    UploadedOnce =>
        /\ ret[1] = Ok
        /\ session[1].file_name \in DOMAIN output
        /\ output[session[1].file_name] =
               Concat([i \in 0..(session[1].total_chunks - 1) |-> LastPayload(i)],
                      session[1].start_chunk_index, session[1].total_chunks - 1)

\* two chunks of different payloads, saved in descending order, the first one
\* below start_chunk_index, merged
C1_Witness ==
    /\ UploadedOnce
    /\ ret[1] = Ok
    /\ session[1].total_chunks = 2
    /\ session[1].start_chunk_index = 1
    /\ History[1].idx = 1
    /\ LastPayload(0) # LastPayload(1)

\* C6: when save_chunk(p1, i) and then save_chunk(p2, i), i < total_chunks, have
\* both completed on the session, both returned Ok, the fragment of i holds
\* exactly p2 and the vector after the second save is the vector after the first
\* (length total_chunks, entry i true); and a successful first merge emits, for
\* every index of its range, the payload saved last for it.
C6_LastWriteWins ==
    LET n == session[1].total_chunks
        h == History
    IN  /\ \A k \in 1..(Len(h) - 1) :
              (/\ h[k].op = "save" /\ h[k + 1].op = "save"
               /\ h[k].idx = h[k + 1].idx /\ h[k].idx < n) =>
                  /\ h[k].ret = Ok /\ h[k + 1].ret = Ok
                  /\ h[k + 1].file = h[k + 1].data
                  /\ h[k + 1].vec = h[k].vec
                  /\ Len(h[k + 1].vec) = n
                  /\ h[k + 1].vec[h[k].idx + 1]
        /\ (/\ Idle(1)
            /\ Len(h) > 0
            /\ h[Len(h)].op = "merge" /\ h[Len(h)].ret = Ok
            /\ \A k \in 1..(Len(h) - 1) : h[k].op = "save") =>
               /\ \A i \in 0..(n - 1) : SavesOf(i) # {}
               /\ output[session[1].file_name] =
                      Concat([i \in 0..(n - 1) |-> LastPayload(i)],
                             session[1].start_chunk_index, n - 1)

\* index 0 saved twice with different payloads, then merged
C6_Witness ==
    /\ Idle(1)
    /\ Len(History) = 3
    /\ History[1].op = "save" /\ History[2].op = "save" /\ History[3].op = "merge"
    /\ History[1].idx = 0 /\ History[2].idx = 0
    /\ History[1].data # History[2].data
    /\ History[2].file = History[2].data
    /\ History[3].ret = Ok

\* C8: after merge_chunks has returned Ok, with no other task at work and no
\* failing deletion, no fragment file of an index in
\* start_chunk_index..total_chunks-1 of that file is on disk.
C8_FragmentsRemoved ==
    (Idle(1) /\ call[1].op = "merge" /\ ret[1] = Ok) =>
        \A i \in session[1].start_chunk_index..(session[1].total_chunks - 1) :
            get_chunk_path(session[1].fid, i) \notin DOMAIN chunks

\* a merge of two chunks, both written before, has returned Ok
C8_Witness ==
    /\ Idle(1) /\ call[1].op = "merge" /\ ret[1] = Ok
    /\ session[1].start_chunk_index = 0
    /\ session[1].total_chunks = 2
    /\ {get_chunk_path(session[1].fid, 0), get_chunk_path(session[1].fid, 1)} \subseteq saved

\* C9: a save_chunk with chunk_index >= total_chunks that finds no registry
\* entry, or one of length total_chunks, returns
\* IndexOutOfBounds(chunk_index, total_chunks), has written the payload to the
\* fragment path of that index, and leaves every entry of the vector as it was
\* (all false if the call created the entry).
C9_OutOfBoundsSave ==
    LET n == session[1].total_chunks
        h == History
    IN  \A k \in 1..Len(h) :
           (/\ h[k].op = "save"
            /\ h[k].idx >= n
            /\ (~Before(k).present \/ Len(Before(k).vec) = n)) =>
               /\ h[k].ret = IndexOutOfBounds(h[k].idx, n)
               /\ h[k].file = h[k].data
               /\ h[k].present
               /\ h[k].vec = IF Before(k).present THEN Before(k).vec ELSE AllFalse(n)

\* an out-of-bounds save on an entry that had a true flag, and one that created
\* the entry
C9_Witness ==
    LET n == session[1].total_chunks
        h == History
    IN  /\ Len(h) >= 2
        /\ h[1].op = "save" /\ h[1].idx >= n /\ h[1].ret.kind = "IndexOutOfBounds"
        /\ \E k \in 2..Len(h) :
              /\ h[k].op = "save" /\ h[k].idx >= n
              /\ h[k].ret.kind = "IndexOutOfBounds"
              /\ Len(Before(k).vec) = n
              /\ \E j \in 1..n : Before(k).vec[j]

(***************************************************************************)
(* Properties of the concurrent tasks (Spec, SpecFiles, SpecSavers)        *)
(***************************************************************************)
\* task t runs or has run merge_chunks and is past its completeness check
PastCheck(t) ==
    /\ call[t].op = "merge"
    /\ \/ pc[t] \in {"m_open", "m_read", "m_append", "m_remove"}
       \/ pc[t] = "idle" /\ ret[t].kind # "Merge"

\* task t is in the filesystem phase of merge_chunks
InFilesystemPhase(t) == pc[t] \in {"m_open", "m_read", "m_append", "m_remove"}

\* C2: a merge_chunks call made while some index of 0..total_chunks-1 of its
\* file has not been saved returns the Merge error and neither creates nor
\* writes the output file.  Stated on the states in which some index of
\* 0..total_chunks-1 has never been written by any save_chunk for the file: the
\* call is then still before its check or has returned Merge, never in or past
\* its filesystem phase.
C2_MergeNeedsEveryChunk ==
    \A t \in Tasks :
        (/\ call[t].op = "merge"
         /\ \E i \in 0..(session[t].total_chunks - 1) :
               get_chunk_path(session[t].fid, i) \notin saved) =>
            ~PastCheck(t)

\* C3: whenever merge_chunks of a session with total_chunks = T passes its
\* completeness check, the vector of its file has, at that instant, length
\* exactly T and every entry true.
C3_CheckSeesFullVector ==
    [][\A t \in Tasks :
          (pc[t] = "m_check" /\ pc'[t] = "m_open") =>
              /\ Len(UPLOADING_FILES[session[t].fid]) = session[t].total_chunks
              /\ all(UPLOADING_FILES[session[t].fid])]_vars

\* C5: merge_chunks holds neither the vector's write guard nor the registry's
\* entry guard while it is in its filesystem phase, and no save_chunk for
\* another file id waits for a lock that a merge holds.
C5_NoLockInFilesystemPhase ==
    \A t \in Tasks :
        InFilesystemPhase(t) =>
            /\ \A s \in Shards : shard_lock[s] # t
            /\ \A f \in FileIds : rw_lock[f] # t
            /\ \A u \in Tasks :
                  (pc[u] = "s_entry" /\ session[u].fid # session[t].fid) =>
                      shard_lock[shard_of[session[u].fid]] # t

\* a step in which task t calls ChunkStrategy::new
NewStep(t) ==
    /\ pc[t] = "idle" /\ pc'[t] = "idle"
    /\ call'[t].op = "new"
    /\ <<call[t], ret[t], session[t]>> # <<call'[t], ret'[t], session'[t]>>

\* C7: ChunkStrategy::new returns Ok, with the fields it was given, exactly for
\* total_chunks >= 1 and start_chunk_index < total_chunks, and
\* IndexOutOfBounds(start_chunk_index, total_chunks) exactly for
\* start_chunk_index >= total_chunks; it changes neither the registry nor the
\* filesystem.
C7_NewValidates ==
    [][\A t \in Tasks :
          NewStep(t) =>
              /\ \/ /\ ret'[t] = Ok
                    /\ session'[t].total_chunks >= 1
                    /\ session'[t].start_chunk_index < session'[t].total_chunks
                 \/ /\ ret'[t].kind = "IndexOutOfBounds"
                    /\ ret'[t].index >= ret'[t].total
                    /\ session'[t] = session[t]
              /\ UNCHANGED <<UPLOADING_FILES, shard_lock, rw_lock, dir_exists, chunks,
                             output>>]_vars

\* one task was refused start_chunk_index = total_chunks, another holds a
\* strategy with the largest legal start_chunk_index
C7_Witness ==
    \E t \in Tasks, u \in Tasks :
        /\ call[t].op = "new" /\ ret[t] = IndexOutOfBounds(MaxTotal, MaxTotal)
        /\ session[t] = NoSession
        /\ session[u].total_chunks = MaxTotal
        /\ session[u].start_chunk_index = MaxTotal - 1

\* C10: the step of save_chunk that sets a completion entry to true comes after
\* the write of that call's fragment has succeeded; a save_chunk that fails with
\* CreateDirectory or WriteChunk returns from before its registry access, and no
\* step of a save_chunk before that access changes the registry.
C10_WriteBeforeMark ==
    [][/\ \A f \in DOMAIN UPLOADING_FILES' : \A k \in 1..Len(UPLOADING_FILES'[f]) :
             (/\ UPLOADING_FILES'[f][k]
              /\ ~(Len(Vector(f)) >= k /\ Vector(f)[k])) =>
                 \E u \in Tasks :
                     /\ pc[u] = "s_mark" /\ pc'[u] = "idle"
                     /\ session[u].fid = f /\ call[u].idx + 1 = k
                     /\ wrote[u]
       /\ \A t \in Tasks :
             /\ (pc[t] # "idle" /\ pc'[t] = "idle"
                 /\ ret'[t].kind \in {"CreateDirectory", "WriteChunk"}) =>
                    /\ pc[t] \in {"s_dir", "s_create", "s_write"}
                    /\ UNCHANGED <<UPLOADING_FILES, shard_lock, rw_lock>>
             /\ (pc[t] \in {"s_dir", "s_create", "s_write"} /\ pc'[t] # pc[t]) =>
                    UNCHANGED <<UPLOADING_FILES, shard_lock, rw_lock>>]_vars

\* one save_chunk has marked its entry, another has failed with WriteChunk
C10_Witness ==
    \E t \in Tasks, u \in Tasks :
        /\ pc[t] = "idle" /\ call[t].op = "save" /\ ret[t] = Ok /\ wrote[t]
        /\ UPLOADING_FILES[session[t].fid][call[t].idx + 1]
        /\ pc[u] = "idle" /\ call[u].op = "save" /\ ret[u].kind = "WriteChunk"

\* every saver has returned from its one save_chunk, each of another index
AllSaved ==
    /\ \A t \in Tasks : pc[t] = "idle" /\ call[t].op = "save"
    /\ \A t \in Tasks, u \in Tasks : t # u => call[t].idx # call[u].idx

\* C4: with concurrent save_chunk tasks on one file id, all of total_chunks = N,
\* under every interleaving: no step turns an entry of the vector from true to
\* false, every save_chunk returns Ok, and once N tasks of the N distinct
\* indices have returned the vector has length N and every entry is true.
C4_NoLostUpdate ==
    [][/\ \A k \in 1..Len(Vector(1)) :
             Vector(1)[k] => (k <= Len(Vector(1)') /\ Vector(1)'[k])
       /\ \A t \in Tasks :
             (pc'[t] = "idle" /\ call'[t].op = "save") => ret'[t] = Ok
       /\ AllSaved' => Vector(1)' = AllTrue(NumSavers)]_vars

\* all savers have returned and every entry is set
C4_Witness ==
    /\ AllSaved
    /\ \A t \in Tasks : ret[t] = Ok
    /\ Vector(1) = AllTrue(NumSavers)

(***************************************************************************)
(* Properties of a merge into an existing output file (SpecPrior)          *)
(***************************************************************************)
\* the client's last call is its first merge_chunks, it has returned Ok, and
\* every index was saved before it
FirstMergeOk ==
    /\ Idle(1)
    /\ Len(History) > 0
    /\ History[Len(History)].op = "merge" /\ History[Len(History)].ret = Ok
    /\ \A k \in 1..(Len(History) - 1) : History[k].op = "save"
    /\ \A i \in 0..(session[1].total_chunks - 1) : SavesOf(i) # {}

\* C11: when the output file already exists with any prior content, a
\* successful merge_chunks leaves it holding exactly the concatenation of the
\* chunks start_chunk_index..total_chunks-1, and no byte of the prior content.
C11_MergeTruncates ==
    FirstMergeOk =>
        output[session[1].file_name] =
            Concat([i \in 0..(session[1].total_chunks - 1) |-> LastPayload(i)],
                   session[1].start_chunk_index, session[1].total_chunks - 1)

(***************************************************************************)
(* Properties of racing sessions on one file id (SpecRace)                 *)
(***************************************************************************)
\* C12: every successful save_chunk(data, i) of a session with total_chunks = T
\* leaves an entry of length exactly T with entry i true, whatever it found
\* (no entry, an entry of length T, one of another length, the emptied entry of
\* a completed merge); when the entry it found had another length than T, every
\* entry other than i is false.  The entry it found is the one its registry
\* access returns (a fresh all-false one when there was none), which no other
\* task changes until the save has marked it.
C12_SavePostcondition ==
    [][\A t \in Tasks :
          LET f == session[t].fid
              T == session[t].total_chunks
              i == call[t].idx
          IN  /\ (pc[t] = "s_entry" /\ pc'[t] = "s_lock") =>
                     Vector(f)' = IF f \in DOMAIN UPLOADING_FILES
                                  THEN Vector(f) ELSE AllFalse(T)
              /\ (pc[t] \in {"s_lock", "s_mark"} /\ pc'[t] = pc[t]) =>
                     Vector(f)' = Vector(f)
              /\ (pc[t] = "s_mark" /\ pc'[t] = "idle" /\ ret'[t] = Ok) =>
                     /\ Len(Vector(f)') = T
                     /\ Vector(f)'[i + 1]
                     /\ Len(Vector(f)) # T =>
                            \A k \in 1..T : k # i + 1 => ~Vector(f)'[k]]_vars

\* a session of total_chunks = 1 has saved index 0, then a session of
\* total_chunks = 2 has saved index 1: the entry is [false, true]
C12_Witness ==
    \E t \in Tasks, u \in Tasks :
        /\ Idle(t) /\ call[t].op = "save" /\ ret[t] = Ok
        /\ session[t].total_chunks = 2 /\ call[t].idx = 1
        /\ Idle(u) /\ call[u].op = "save" /\ ret[u] = Ok
        /\ session[u].total_chunks = 1 /\ call[u].idx = 0
        /\ Vector(1) = <<FALSE, TRUE>>

\* task t is between acquiring and releasing the write access of its file's
\* vector (impl.rs:125-137, 148-154)
InCritical(t) == pc[t] \in {"s_mark", "m_check"}

\* C13: in every interleaving of save_chunk and merge_chunks tasks on one file
\* id, a task between acquiring and releasing the vector's write access holds
\* the vector's write guard, at most one task is there at a time, and every
\* step that changes the vector of an entry is the whole critical section of
\* the task holding the guard: merge's check-then-clear and save's
\* reset-check-set are not interleaved with any other change of the vector.
C13_MutualExclusion ==
    [][/\ \A t \in Tasks :
             InCritical(t)' => rw_lock'[session[t].fid] = t
       /\ \A t \in Tasks, u \in Tasks :
             (t # u /\ session[t].fid = session[u].fid) =>
                 ~(InCritical(t)' /\ InCritical(u)')
       /\ \A f \in DOMAIN UPLOADING_FILES :
             UPLOADING_FILES'[f] # UPLOADING_FILES[f] =>
                 \E t \in Tasks :
                     /\ InCritical(t) /\ session[t].fid = f /\ rw_lock[f] = t
                     /\ ~InCritical(t)' /\ rw_lock'[f] = NoTask
                     /\ \A u \in Tasks \ {t} : pc'[u] = pc[u]]_vars

\* a merge_chunks is in its critical section while a save_chunk that has
\* written its fragment waits for the same entry
C13_Witness ==
    \E t \in Tasks, u \in Tasks :
        /\ pc[t] = "m_check" /\ rw_lock[session[t].fid] = t
        /\ all(Vector(session[t].fid)) /\ Vector(session[t].fid) # <<>>
        /\ pc[u] = "s_entry" /\ session[u].fid = session[t].fid

\* some save_chunk is rewriting the fragment at `path` right now
BeingWritten(path) ==
    \E u \in Tasks :
        pc[u] = "s_write" /\ get_chunk_path(session[u].fid, call[u].idx) = path

\* C14: in every reachable state, under any interleaving of save_chunk and
\* merge_chunks calls on a file id, an entry i of the file's vector that is
\* true has its fragment file on disk, holding a completely written payload
\* (read here in the claim's favour: a fragment that a save_chunk of the same
\* index is rewriting at that moment is not held against it).
C14_TrueMeansOnDisk ==
    \A f \in DOMAIN UPLOADING_FILES : \A k \in 1..Len(UPLOADING_FILES[f]) :
        (UPLOADING_FILES[f][k] /\ ~BeingWritten(get_chunk_path(f, k - 1))) =>
            /\ get_chunk_path(f, k - 1) \in DOMAIN chunks
            /\ chunks[get_chunk_path(f, k - 1)] \in Payloads

(***************************************************************************)
(* Properties of a merge under I/O faults (SpecFaulty)                     *)
(***************************************************************************)
\* the client saved every index, each save returned Ok, and then made its
\* first merge_chunks call, which has returned
MergedComplete ==
    /\ Idle(1)
    /\ Len(History) > 0
    /\ History[Len(History)].op = "merge"
    /\ \A k \in 1..(Len(History) - 1) : History[k].op = "save" /\ History[k].ret = Ok
    /\ \A i \in 0..(session[1].total_chunks - 1) : SavesOf(i) # {}

\* the indices of the merge range
Range == session[1].start_chunk_index..(session[1].total_chunks - 1)

\* the payloads of the indices lo..hi, in order
Payload(lo, hi) ==
    Concat([i \in 0..(session[1].total_chunks - 1) |-> LastPayload(i)], lo, hi)

\* the indices of the merge range whose fragment is no longer on disk
Deleted == {i \in Range : get_chunk_path(session[1].fid, i) \notin DOMAIN chunks}

IsPrefix(p, q) == Len(p) <= Len(q) /\ SubSeq(q, 1, Len(p)) = p

\* C15: merge_chunks deletes fragment i only after the bytes of fragment i
\* have been appended to the output file, one index at a time in ascending
\* order: when the call has returned, the output file holds the payloads of
\* start_chunk_index..i for every index i whose fragment the call deleted; and
\* after ReadChunk or WriteOutput the fragment that failed and every fragment
\* of a higher index are still on disk.
C15_DeleteAfterAppend ==
    MergedComplete =>
        /\ \A i \in Deleted :
               /\ session[1].file_name \in DOMAIN output
               /\ IsPrefix(Payload(session[1].start_chunk_index, i),
                           output[session[1].file_name])
        /\ ret[1].kind \in {"ReadChunk", "WriteOutput"} =>
               \E j \in Range : \A i \in j..(session[1].total_chunks - 1) :
                   Fragment(session[1].fid, i) = LastPayload(i)

\* C16: a fragment deletion that fails never affects the merge result.  In the
\* first merge_chunks of a client whose saves all succeeded, every deletion
\* step, failed or not, touches no other fragment and goes on to the next
\* index, or returns Ok after the last one; and when deletions are the only
\* operations that failed, the output file holds the payloads of the whole
\* range, as when every deletion succeeds, and the fragments left on disk are
\* as many as the deletions that failed.
C16_DeletionFailureIgnored ==
    [][(/\ pc[1] = "m_remove"
        /\ \A k \in 1..Len(hist) : hist[k].op = "save" /\ hist[k].ret = Ok) =>
           LET i == loop_i[1]
               path == get_chunk_path(session[1].fid, i)
               failed == IF path \in DOMAIN chunks' THEN 1 ELSE 0
           IN  /\ chunks' = IF failed = 1 THEN chunks ELSE Remove(chunks, path)
               /\ IF i + 1 < session[1].total_chunks
                  THEN /\ pc'[1] = "m_read" /\ loop_i'[1] = i + 1
                       /\ faults' = faults - failed
                  ELSE /\ pc'[1] = "idle" /\ ret'[1] = Ok
                       /\ faults' = faults - failed =>
                              /\ output'[session[1].file_name] =
                                     Payload(session[1].start_chunk_index,
                                             session[1].total_chunks - 1)
                              /\ Cardinality(Range \ Deleted') = FaultBudget - faults']_vars

\* a merge of two chunks has returned Ok with the whole output although the
\* deletion of both fragments failed
C16_Witness ==
    /\ MergedComplete
    /\ ret[1] = Ok
    /\ session[1].start_chunk_index = 0 /\ session[1].total_chunks = 2
    /\ Deleted = {}
    /\ faults = FaultBudget - 2
    /\ output[session[1].file_name] = Payload(0, 1)

(***************************************************************************)
(* Properties of the tasks on worker threads (SpecWorkers)                 *)
(***************************************************************************)
\* task t occupies a worker thread inside entry(), waiting for the lock of
\* shard s, which another task holds
BlockedOn(t, s) ==
    /\ t \in running
    /\ pc[t] \in {"s_entry", "m_entry"}
    /\ shard_of[session[t].fid] = s
    /\ shard_lock[s] \notin {NoTask, t}

\* C17: on a runtime with any finite number of worker threads no reachable
\* state has a task suspended at an await while it holds a registry guard
\* that every worker thread is blocked waiting for (a state from which no
\* task can ever return).
C17_NoStarvedGuardHolder ==
    ~ \E u \in Tasks :
          /\ u \notin running
          /\ pc[u] \in AwaitPcs
          /\ shard_lock[shard_of[session[u].fid]] = u
          /\ Cardinality(running) = NumWorkers
          /\ \A t \in running : BlockedOn(t, shard_of[session[u].fid])

(***************************************************************************)
(* Properties of repeated merges of the sequential client (SpecSeq)        *)
(***************************************************************************)
\* C18: with no I/O faults and no change of the upload directory from outside,
\* under any sequence of save_chunk and merge_chunks calls of sessions with
\* the same total_chunks, start_chunk_index and naming function on one file
\* id, every merge_chunks returns Ok or Merge, never ReadChunk.
C18_NoReadChunk ==
    \A k \in 1..Len(History) :
        History[k].op = "merge" => History[k].ret.kind \in {"Ok", "Merge"}

(***************************************************************************)
(* Properties of a failed merge (SpecFaulty)                               *)
(***************************************************************************)
\* the position in the history of the last save_chunk call for index i
LastSave(i) == CHOOSE k \in SavesOf(i) : \A j \in SavesOf(i) : j <= k

\* C19: whenever merge_chunks returns an error (Merge, CreateOutputFile,
\* ReadChunk, WriteOutput), the vector of the file and every fragment on disk
\* are as they were before the call.  Stated for the first merge_chunks of
\* the client: the vector is the one the preceding call left (an all-false
\* vector created for a file that had no entry counts as no change), and every
\* fragment a save_chunk left on disk is still there with the same content.
C19_FailedMergeChangesNothing ==
    LET n == Len(History)
    IN  (/\ Idle(1)
         /\ n > 0
         /\ History[n].op = "merge" /\ History[n].ret # Ok
         /\ \A k \in 1..(n - 1) : History[k].op = "save") =>
            /\ History[n].vec = IF Before(n).present THEN Before(n).vec
                                ELSE AllFalse(session[1].total_chunks)
            /\ \A i \in Indices :
                   (SavesOf(i) # {} /\ History[LastSave(i)].file # <<>>) =>
                       Fragment(session[1].fid, i) = History[LastSave(i)].file

(***************************************************************************)
(* Properties of sessions on different file ids (SpecFiles)                *)
(***************************************************************************)
\* what the registry and the upload directory hold of file f: its entry, its
\* fragment files and its output file
FileState(f) ==
    [present |-> f \in DOMAIN UPLOADING_FILES,
     vec |-> Vector(f),
     fragments |-> [i \in Indices |->
                      [on_disk |-> get_chunk_path(f, i) \in DOMAIN chunks,
                       content |-> Fragment(f, i)]],
     out |-> IF f \in DOMAIN output THEN <<output[f]>> ELSE <<>>]

\* C20: for sessions with distinct file ids, distinct file names and a naming
\* function that maps distinct (file_id, index) pairs to distinct paths, every
\* step of save_chunk and merge_chunks on one file leaves the vector, the
\* fragment files and the output file of every other file unchanged, under
\* every interleaving.
C20_FilesIndependent ==
    [][\A t \in Tasks :
          pc'[t] # pc[t] =>
              \A f \in FileIds \ {session[t].fid} : FileState(f)' = FileState(f)]_vars

\* file 1 is merged while file 2 has its chunk saved and not merged
C20_Witness ==
    \E t \in Tasks, u \in Tasks :
        /\ session[t].fid = 1 /\ Idle(t) /\ call[t].op = "merge" /\ ret[t] = Ok
        /\ session[u].fid = 2 /\ Idle(u) /\ call[u].op = "save" /\ ret[u] = Ok
        /\ FileState(1).out = << <<1>> >>
        /\ FileState(2).vec = <<TRUE>>
        /\ FileState(2).fragments[0].on_disk

====
